---------------------------- MODULE Spec2Model ----------------------------
(***************************************************************************)
(* State-machine model of the skiing game's simulation engine              *)
(* (src/game.js): the screen state machine, the rhythm engine, the skier   *)
(* physics, the spawner/scroller and the collision rules; and of the       *)
(* high-score server (src/server/server.js).                               *)
(*                                                                         *)
(* Fixed point: every length, speed and rhythm value is kept in            *)
(* thousandths (335 px is 335000, rhythmScore 0.3 is 300, gravity 0.5 is   *)
(* 500).  Times are whole milliseconds; rhythmTolerance, which the code    *)
(* computes as a fraction of a millisecond, is kept in thousandths of a    *)
(* millisecond.  Cosmetic fields (animation, pole angle, body lean, the    *)
(* rhythm feedback flash, decorative spectators on a bridge, the members   *)
(* of a spectator group) are read by the renderer only and are left out.   *)
(***************************************************************************)
EXTENDS Integers, Sequences, FiniteSets, TLC

----------------------------------------------------------------------------
(* Program constants *)

CANVAS_WIDTH == 800
CANVAS_HEIGHT == 400
SKIER_VERTICAL_OFFSET == 65
FPS == 60
TARGET_RHYTHM == 400
BASE_RHYTHM_TOLERANCE == 200
MIN_RHYTHM_TOLERANCE == 80
\* 0.01 and 0.15, in thousandths
RHYTHM_DECAY == 10
RHYTHM_GAIN == 150
SPAWN_INTERVAL == 120
SPECTATOR_SPAWN_INTERVAL == 80

\* skier.x, skier.maxSpeed, skier.jumpVelocity, skier.gravity (0.5, in
\* thousandths), the duck duration and the two collision heights
SkierX == 100
MaxSpeed == 5
JumpVelocity == -12
Gravity == 500
DuckTicks == 45
NormalHeight == 60
DuckHeight == 25

GameScreen == [START |-> "start", PLAYING |-> "playing", GAME_OVER |-> "gameOver"]

\* The ground baseline CANVAS_HEIGHT - SKIER_VERTICAL_OFFSET, in thousandths
GroundY == (CANVAS_HEIGHT - SKIER_VERTICAL_OFFSET) * 1000

\* event.key values the handlers distinguish
Keys == {"ArrowLeft", "ArrowRight", " ", "ArrowDown", "l"}
DirectionalKeys == {"ArrowLeft", "ArrowRight"}

Max(a, b) == IF a >= b THEN a ELSE b
Min(a, b) == IF a <= b THEN a ELSE b

----------------------------------------------------------------------------
(* Bounds of the exploration *)

\* Frame period in ms (1000 / FPS, whole milliseconds)
FrameMs == 1000 \div FPS

\* gameOver(): the delays of its two setTimeout calls, the score a name is
\* asked for, the length of the leaderboard
GameOverDelay == 500
PromptDelay == 300
PromptMinScore == 100
LeaderboardSize == 20

\* Math.random() returns a value in [0, 1); the draws explored, in thousandths
RandomValues == {0, 999}

----------------------------------------------------------------------------
VARIABLES
    currentScreen,        \* GameScreen value
    score,
    worldX,
    skier,                \* record: y, speed, isJumping, isDucking, duckTimer, yVelocity, height
    lastKeyTime,
    rhythmTolerance,
    lastKey,              \* "none" models null
    rhythmScore,
    obstacles,            \* sequence of [type, worldX, y, width, height]
    spawnTimer,
    spectators,           \* sequence of [worldX, side]
    spectatorSpawnTimer,
    now,                  \* Date.now()
    pendingFrames,        \* requestAnimationFrame callbacks (gameLoop) queued
    startButtonShown,     \* #startButton display: block / none
    gameOverCalls,        \* history: calls of gameOver() since the last start
    atGameOver,           \* history: the simulation state at the latest gameOver() call
    ticks,                \* history: calls of update() since the last start
    duckAt,               \* history: value of ticks when the latest duck was accepted (-1: none)
    timers,               \* setTimeout callbacks of gameOver() not yet run, each [kind, wait, worthy, final]
    namePrompt,           \* history: the latest name prompt, [asked, scored, final]
    budget,               \* what the environment may still do (bounds)
    highScoresFile,       \* server: the scores in highscores.json, in file order
    highScoresCollection, \* server: the Firestore documents, each [id, score]
    nextDocId,            \* server: the id Firestore gives the next added document
    pending,              \* server: POST /highscores handlers waiting on Firestore
    response,             \* server: the latest response sent, [status, entries]
    traffic               \* what the clients may still send (bounds)

gameVars == <<currentScreen, score, worldX, skier, lastKeyTime, rhythmTolerance,
          lastKey, rhythmScore, obstacles, spawnTimer, spectators,
          spectatorSpawnTimer, now, pendingFrames, startButtonShown,
          gameOverCalls, atGameOver, ticks, duckAt, timers, namePrompt, budget>>

serverVars == <<highScoresFile, highScoresCollection, nextDocId, pending, response,
                traffic>>

vars == <<gameVars, serverVars>>

----------------------------------------------------------------------------
(* The program state as one record, so that the functions of game.js can be *)
(* composed in the order the code calls them.                               *)

G == [currentScreen |-> currentScreen, score |-> score, worldX |-> worldX,
      skier |-> skier, lastKeyTime |-> lastKeyTime,
      rhythmTolerance |-> rhythmTolerance, lastKey |-> lastKey,
      rhythmScore |-> rhythmScore, obstacles |-> obstacles,
      spawnTimer |-> spawnTimer, spectators |-> spectators,
      spectatorSpawnTimer |-> spectatorSpawnTimer,
      pendingFrames |-> pendingFrames, startButtonShown |-> startButtonShown,
      gameOverCalls |-> gameOverCalls, atGameOver |-> atGameOver,
      ticks |-> ticks, duckAt |-> duckAt, timers |-> timers,
      namePrompt |-> namePrompt]

\* The simulation state proper: what a frozen or ignored operation must keep
Sim(g) == [worldX |-> g.worldX, score |-> g.score, rhythmScore |-> g.rhythmScore,
           rhythmTolerance |-> g.rhythmTolerance, lastKey |-> g.lastKey,
           lastKeyTime |-> g.lastKeyTime, skier |-> g.skier,
           obstacles |-> g.obstacles, spectators |-> g.spectators,
           spawnTimer |-> g.spawnTimer,
           spectatorSpawnTimer |-> g.spectatorSpawnTimer]

\* Mutant: the speed without its floor
SpeedOf_noFloor(rs) == MaxSpeed * rs

\* skier.speed = skier.maxSpeed * Math.max(rhythmScore, 0.2)
SpeedOf(rs) == MaxSpeed * Max(rs, 200)

\* BASE - (BASE - MIN) * rhythmScore, in thousandths of a millisecond
ToleranceOf(rs) ==
    BASE_RHYTHM_TOLERANCE * 1000 - (BASE_RHYTHM_TOLERANCE - MIN_RHYTHM_TOLERANCE) * rs

\* Math.floor(worldX / 10)
ScoreOf(wx) == wx \div 10000

----------------------------------------------------------------------------
(* gameOver() *)

\* let highScores = []: the copy of the leaderboard that the client holds
clientHighScores == <<>>

\* highScores.length < 20 || score > highScores[highScores.length - 1]?.score
isLeaderboardWorthy(g) ==
    \/ Len(clientHighScores) < LeaderboardSize
    \/ g.score > clientHighScores[Len(clientHighScores)].score

\* The score that the tick calling gameOver() leaves: the result of the run
\* (history, carried by the callbacks that the call schedules)
FinalScore(g) == ScoreOf(g.worldX + Max(g.skier.speed, 500))

\* The callback set to run GameOverDelay ms after the call
GameOverTimer(g) ==
    [kind |-> "show", wait |-> GameOverDelay, worthy |-> isLeaderboardWorthy(g),
     final |-> FinalScore(g)]

gameOver(g) ==
    [g EXCEPT !.currentScreen = GameScreen.GAME_OVER,
              !.gameOverCalls = @ + 1,
              !.atGameOver = Sim(g),
              !.timers = Append(@, GameOverTimer(g))]

\* The outer callback: the game-over overlay is drawn; a worthy score above
\* PromptMinScore sets the inner callback, PromptDelay ms later
showGameOver(g, tm) ==
    IF tm.worthy /\ g.score > PromptMinScore
    THEN [g EXCEPT !.timers = Append(@, [tm EXCEPT !.kind = "prompt",
                                                   !.wait = @ + PromptDelay])]
    ELSE g

\* The inner callback: getValidPlayerName(`You scored ${score}! ...`), whose
\* name goes to submitScore(name, score)
promptName(g, tm) ==
    [g EXCEPT !.namePrompt = [asked |-> TRUE, scored |-> g.score, final |-> tm.final]]

\* The timers without the i-th
Without(seq, i) == SubSeq(seq, 1, i - 1) \o SubSeq(seq, i + 1, Len(seq))

\* A timer callback runs
timeout(g, i) ==
    LET tm == g.timers[i]
        rest == [g EXCEPT !.timers = Without(@, i)]
    IN  IF tm.kind = "show" THEN showGameOver(rest, tm) ELSE promptName(rest, tm)

\* FrameMs pass for the timers that wait
Aged(g) ==
    [g EXCEPT !.timers = [i \in DOMAIN @ |-> [@[i] EXCEPT !.wait = @ - FrameMs]]]

\* The timers that come due before the next animation frame
Due(g) ==
    { i \in DOMAIN g.timers :
        /\ g.timers[i].wait < FrameMs
        /\ \A j \in DOMAIN g.timers : g.timers[i].wait <= g.timers[j].wait }

----------------------------------------------------------------------------
(* updateSkier() *)

\* Mutant: the landing keeps the velocity of the fall
JumpStep_keepsVelocity(sk) ==
    IF sk.isJumping
    THEN LET y1 == sk.y + sk.yVelocity
             v1 == sk.yVelocity + Gravity
         IN  IF y1 >= GroundY
             THEN [sk EXCEPT !.y = GroundY, !.isJumping = FALSE, !.yVelocity = v1]
             ELSE [sk EXCEPT !.y = y1, !.yVelocity = v1]
    ELSE sk

\* Mutant: the skier lands only once below the baseline
JumpStep_lateClamp(sk) ==
    IF sk.isJumping
    THEN LET y1 == sk.y + sk.yVelocity
             v1 == sk.yVelocity + Gravity
         IN  IF y1 > GroundY
             THEN [sk EXCEPT !.y = GroundY, !.isJumping = FALSE, !.yVelocity = 0]
             ELSE [sk EXCEPT !.y = y1, !.yVelocity = v1]
    ELSE sk

JumpStep(sk) ==
    IF sk.isJumping
    THEN LET y1 == sk.y + sk.yVelocity
             v1 == sk.yVelocity + Gravity
         IN  IF y1 >= GroundY
             THEN [sk EXCEPT !.y = GroundY, !.isJumping = FALSE, !.yVelocity = 0]
             ELSE [sk EXCEPT !.y = y1, !.yVelocity = v1]
    ELSE sk

\* Mutant: the duck ends one tick early
DuckStep_early(sk) ==
    IF sk.isDucking
    THEN LET t1 == sk.duckTimer - 1
         IN  IF t1 <= 1
             THEN [sk EXCEPT !.duckTimer = t1, !.isDucking = FALSE,
                             !.height = NormalHeight * 1000]
             ELSE [sk EXCEPT !.duckTimer = t1, !.height = DuckHeight * 1000]
    ELSE [sk EXCEPT !.height = NormalHeight * 1000]

\* Mutant: the tick that ends the duck leaves the reduced height
DuckStep_keepsLow(sk) ==
    IF sk.isDucking
    THEN LET t1 == sk.duckTimer - 1
         IN  IF t1 <= 0
             THEN [sk EXCEPT !.duckTimer = t1, !.isDucking = FALSE,
                             !.height = DuckHeight * 1000]
             ELSE [sk EXCEPT !.duckTimer = t1, !.height = DuckHeight * 1000]
    ELSE [sk EXCEPT !.height = NormalHeight * 1000]

DuckStep(sk) ==
    IF sk.isDucking
    THEN LET t1 == sk.duckTimer - 1
         IN  IF t1 <= 0
             THEN [sk EXCEPT !.duckTimer = t1, !.isDucking = FALSE,
                             !.height = NormalHeight * 1000]
             ELSE [sk EXCEPT !.duckTimer = t1, !.height = DuckHeight * 1000]
    ELSE [sk EXCEPT !.height = NormalHeight * 1000]

updateSkier(g) == [g EXCEPT !.skier = DuckStep(JumpStep(g.skier))]

----------------------------------------------------------------------------
(* updateObstacles() and updateSpectators() *)

\* obstacle.worldX -= 2 + skier.speed * 0.2
Drift(g) == 2000 + g.skier.speed \div 5

FallenSkier(g, rnd) ==
    [type |-> "skier",
     worldX |-> g.worldX + CANVAS_WIDTH * 1000 + rnd.offset * 200,
     y |-> (CANVAS_HEIGHT - 40) * 1000, width |-> 50000, height |-> 40000]

\* Mutant: a bridge hung five pixels lower
Bridge_low(g, rnd) ==
    [type |-> "bridge",
     worldX |-> g.worldX + CANVAS_WIDTH * 1000 + rnd.offset * 300,
     y |-> (CANVAS_HEIGHT - 100) * 1000, width |-> 120000, height |-> 50000]

Bridge(g, rnd) ==
    [type |-> "bridge",
     worldX |-> g.worldX + CANVAS_WIDTH * 1000 + rnd.offset * 300,
     y |-> (CANVAS_HEIGHT - 105) * 1000, width |-> 120000, height |-> 50000]

\* Mutant: the obstacle is created at the skier instead of ahead of the frontier
NewObstacle_onSkier(g, rnd) == [Bridge(g, rnd) EXCEPT !.worldX = g.worldX + SkierX * 1000]

\* Math.random() > 0.3 ? 'bridge' : 'skier'
NewObstacle(g, rnd) == IF rnd.type > 300 THEN Bridge(g, rnd) ELSE FallenSkier(g, rnd)

Scroll(seq, d) == [i \in DOMAIN seq |-> [seq[i] EXCEPT !.worldX = @ - d]]

\* Mutant: an obstacle is dropped as soon as it is within 150 of the cursor
ObstacleKept_eager(o, wx) == o.worldX > wx + 150000

ObstacleKept(o, wx) == o.worldX > wx - 150000

\* Mutant: the spawn comes one tick late
updateObstacles_late(g, rnd) ==
    LET t1 == g.spawnTimer + 1
        spawn == t1 > SPAWN_INTERVAL
        pushed == IF spawn THEN Append(g.obstacles, NewObstacle(g, rnd))
                  ELSE g.obstacles
        moved == Scroll(pushed, Drift(g))
    IN  [g EXCEPT !.spawnTimer = IF spawn THEN 0 ELSE t1,
                  !.obstacles = SelectSeq(moved, LAMBDA o : ObstacleKept(o, g.worldX))]

updateObstacles(g, rnd) ==
    LET t1 == g.spawnTimer + 1
        spawn == t1 >= SPAWN_INTERVAL
        pushed == IF spawn THEN Append(g.obstacles, NewObstacle(g, rnd))
                  ELSE g.obstacles
        moved == Scroll(pushed, Drift(g))
    IN  [g EXCEPT !.spawnTimer = IF spawn THEN 0 ELSE t1,
                  !.obstacles = SelectSeq(moved, LAMBDA o : ObstacleKept(o, g.worldX))]

\* side = Math.random() > 0.5 ? 'left' : 'right'; baseDistance by side
NewSpectatorGroup(g, rnd) ==
    LET side == IF rnd.side > 500 THEN "left" ELSE "right"
        baseDistance == IF side = "left"
                        THEN 0 - 150000 - rnd.distance * 200
                        ELSE CANVAS_WIDTH * 1000 + rnd.distance * 200
    IN  [worldX |-> g.worldX + baseDistance, side |-> side]

SpectatorKept(s, wx) == s.worldX > wx - 600000

updateSpectators(g, rnd) ==
    LET t1 == g.spectatorSpawnTimer + 1
        spawn == t1 >= SPECTATOR_SPAWN_INTERVAL
        pushed == IF spawn THEN Append(g.spectators, NewSpectatorGroup(g, rnd))
                  ELSE g.spectators
        moved == Scroll(pushed, Drift(g))
    IN  [g EXCEPT !.spectatorSpawnTimer = IF spawn THEN 0 ELSE t1,
                  !.spectators = SelectSeq(moved, LAMBDA s : SpectatorKept(s, g.worldX))]

----------------------------------------------------------------------------
(* checkCollisions() *)

\* skier.x < obstacleScreenX + obstacle.width && skier.x + 20 > obstacleScreenX
OverlapsX(o, wx) ==
    LET obstacleScreenX == o.worldX - wx
    IN  /\ SkierX * 1000 < obstacleScreenX + o.width
        /\ SkierX * 1000 + 20000 > obstacleScreenX

\* The vertical test with the full pose height
OverlapsY(o, sk) == sk.y < o.y + o.height /\ sk.y + sk.height > o.y

\* Mutant: the ducking pose tested with its full height
HeadHits_fullPose(o, sk) == sk.y < o.y + o.height /\ sk.y + sk.height > o.y

\* The head point of the ducking pose, skier.y + 12
HeadHits(o, sk) ==
    LET duckingHeadY == sk.y + 12000
    IN  duckingHeadY < o.y + o.height /\ duckingHeadY > o.y

\* Mutant: a fallen skier hits a jumping skier too
Collides_jumpIgnored(o, sk, wx) ==
    IF o.type = "skier"
    THEN OverlapsX(o, wx) /\ OverlapsY(o, sk)
    ELSE /\ OverlapsX(o, wx)
         /\ IF sk.isDucking THEN HeadHits(o, sk) ELSE OverlapsY(o, sk)

\* Whether the forEach body calls gameOver() for obstacle o
Collides(o, sk, wx) ==
    IF o.type = "skier"
    THEN OverlapsX(o, wx) /\ OverlapsY(o, sk) /\ ~sk.isJumping
    ELSE /\ OverlapsX(o, wx)
         /\ IF sk.isDucking THEN HeadHits(o, sk) ELSE OverlapsY(o, sk)

RECURSIVE CheckFrom(_, _)
CheckFrom(g, i) ==
    IF i > Len(g.obstacles) THEN g
    ELSE CheckFrom(IF Collides(g.obstacles[i], g.skier, g.worldX)
                   THEN gameOver(g) ELSE g, i + 1)

checkCollisions(g) == CheckFrom(g, 1)

----------------------------------------------------------------------------
(* update(), gameLoop(), startGame(), renderStartScreen() *)

\* Mutant: the score taken before the cursor advances
Advance_staleScore(g) ==
    [g EXCEPT !.worldX = g.worldX + Max(g.skier.speed, 500), !.score = ScoreOf(g.worldX)]

\* Mutant: the cursor creeps by the minimum whatever the speed
Advance_creep(g) ==
    LET wx == g.worldX + 500
    IN  [g EXCEPT !.worldX = wx, !.score = ScoreOf(wx)]

\* worldX += Math.max(skier.speed, 0.5); score = Math.floor(worldX / 10)
Advance(g) ==
    LET wx == g.worldX + Max(g.skier.speed, 500)
    IN  [g EXCEPT !.worldX = wx, !.score = ScoreOf(wx)]

\* Mutant: the passive decay without its floor
Decay_noFloor(g, t) ==
    IF (t - g.lastKeyTime) * 1000 > TARGET_RHYTHM * 1000 + g.rhythmTolerance
    THEN LET rs == g.rhythmScore - RHYTHM_DECAY
         IN  [g EXCEPT !.rhythmScore = rs, !.skier.speed = SpeedOf(rs)]
    ELSE g

\* Mutant: the decay stops at the speed floor, 0.2
Decay_stalls(g, t) ==
    IF (t - g.lastKeyTime) * 1000 > TARGET_RHYTHM * 1000 + g.rhythmTolerance
    THEN LET rs == Max(g.rhythmScore - RHYTHM_DECAY, 200)
         IN  [g EXCEPT !.rhythmScore = rs, !.skier.speed = SpeedOf(rs)]
    ELSE g

\* if (Date.now() - lastKeyTime > TARGET_RHYTHM + rhythmTolerance) decay
Decay(g, t) ==
    IF (t - g.lastKeyTime) * 1000 > TARGET_RHYTHM * 1000 + g.rhythmTolerance
    THEN LET rs == Max(g.rhythmScore - RHYTHM_DECAY, 100)
         IN  [g EXCEPT !.rhythmScore = rs, !.skier.speed = SpeedOf(rs)]
    ELSE g

\* The state checkCollisions() reads in a tick: the skier, the obstacles and
\* the spectators have been updated, the cursor has not advanced yet
beforeCheck(g, rnd) == updateSpectators(updateObstacles(updateSkier(g), rnd), rnd)

update(g, t, rnd) ==
    [Decay(Advance(checkCollisions(beforeCheck(g, rnd))), t) EXCEPT !.ticks = @ + 1]

\* Mutant: the loop without its screen check
gameLoop_unguarded(g, t, rnd) == [update(g, t, rnd) EXCEPT !.pendingFrames = @ + 1]

gameLoop(g, t, rnd) ==
    IF g.currentScreen # GameScreen.PLAYING THEN g
    ELSE [update(g, t, rnd) EXCEPT !.pendingFrames = @ + 1]

\* The draws of a tick that spawns nothing (never read)
NoDraw == [type |-> 0, offset |-> 0, side |-> 0, distance |-> 0]

\* Mutant: a start that keeps the obstacles of the run before
startGame_keepsObstacles(g, t) ==
    LET reset == [g EXCEPT !.currentScreen = GameScreen.PLAYING,
                           !.score = 0,
                           !.worldX = 0,
                           !.skier.y = GroundY,
                           !.skier.isJumping = FALSE,
                           !.skier.isDucking = FALSE,
                           !.skier.yVelocity = 0,
                           !.skier.speed = MaxSpeed * 200,
                           !.rhythmScore = 300,
                           !.lastKeyTime = t,
                           !.spawnTimer = 0,
                           !.spectators = <<>>,
                           !.spectatorSpawnTimer = 0,
                           !.gameOverCalls = 0,
                           !.ticks = 0,
                           !.duckAt = -1]
    IN  [gameLoop(reset, t, NoDraw) EXCEPT !.startButtonShown = FALSE]

startGame(g, t) ==
    LET reset == [g EXCEPT !.currentScreen = GameScreen.PLAYING,
                           !.score = 0,
                           !.worldX = 0,
                           !.skier.y = GroundY,
                           !.skier.isJumping = FALSE,
                           !.skier.isDucking = FALSE,
                           !.skier.yVelocity = 0,
                           !.skier.speed = MaxSpeed * 200,
                           !.rhythmScore = 300,
                           !.lastKeyTime = t,
                           !.obstacles = <<>>,
                           !.spawnTimer = 0,
                           !.spectators = <<>>,
                           !.spectatorSpawnTimer = 0,
                           !.gameOverCalls = 0,
                           !.ticks = 0,
                           !.duckAt = -1]
    IN  [gameLoop(reset, t, NoDraw) EXCEPT !.startButtonShown = FALSE]

renderStartScreen(g) ==
    [g EXCEPT !.currentScreen = GameScreen.START, !.startButtonShown = TRUE]

----------------------------------------------------------------------------
(* handleKeyDown(event) *)

\* Mutant: a scored key gains whatever its timing
\* (below: the beat of a directional key pressed timeDiff ms after the last
\* one, the new rhythmScore)
Beat_alwaysGain(rs, timeDiff, good) == Min(rs + RHYTHM_GAIN, 1000)

Beat(rs, timeDiff, good) ==
    IF good THEN Min(rs + RHYTHM_GAIN, 1000) ELSE Max(rs - RHYTHM_GAIN \div 2, 100)

\* Mutant: a key exactly on the edge of the window is off the beat
GoodTiming_exclusive(timeDiff, tol) ==
    /\ timeDiff * 1000 > TARGET_RHYTHM * 1000 - tol
    /\ timeDiff * 1000 < TARGET_RHYTHM * 1000 + tol

\* timeDiff >= TARGET_RHYTHM - rhythmTolerance && timeDiff <= TARGET_RHYTHM + rhythmTolerance
GoodTiming(timeDiff, tol) ==
    /\ timeDiff * 1000 >= TARGET_RHYTHM * 1000 - tol
    /\ timeDiff * 1000 <= TARGET_RHYTHM * 1000 + tol

\* Mutant: a key on the beat no longer counts, only one after it
Directional_lateOnly(g, key, t) ==
    LET timeDiff == t - g.lastKeyTime
        tol == ToleranceOf(g.rhythmScore)
        good == timeDiff > TARGET_RHYTHM /\ GoodTiming(timeDiff, tol)
        rs == Beat(g.rhythmScore, timeDiff, good)
        g1 == [g EXCEPT !.rhythmTolerance = tol]
        g2 == IF g.lastKey # key
              THEN [g1 EXCEPT !.rhythmScore = rs, !.skier.speed = SpeedOf(rs)]
              ELSE g1
    IN  [g2 EXCEPT !.lastKey = key, !.lastKeyTime = t]

\* Mutant: every directional key is scored, alternation or not
Directional_everyKey(g, key, t) ==
    LET timeDiff == t - g.lastKeyTime
        tol == ToleranceOf(g.rhythmScore)
        rs == Beat(g.rhythmScore, timeDiff, GoodTiming(timeDiff, tol))
    IN  [g EXCEPT !.rhythmTolerance = tol, !.rhythmScore = rs,
                  !.skier.speed = SpeedOf(rs), !.lastKey = key, !.lastKeyTime = t]

\* Mutant: the side of a key is not recorded
Directional_staleSide(g, key, t) ==
    LET timeDiff == t - g.lastKeyTime
        tol == ToleranceOf(g.rhythmScore)
        rs == Beat(g.rhythmScore, timeDiff, GoodTiming(timeDiff, tol))
        g1 == [g EXCEPT !.rhythmTolerance = tol]
        g2 == IF g.lastKey # key
              THEN [g1 EXCEPT !.rhythmScore = rs, !.skier.speed = SpeedOf(rs)]
              ELSE g1
    IN  [g2 EXCEPT !.lastKeyTime = t]

\* The ArrowLeft / ArrowRight branch
Directional(g, key, t) ==
    LET timeDiff == t - g.lastKeyTime
        tol == ToleranceOf(g.rhythmScore)
        rs == Beat(g.rhythmScore, timeDiff, GoodTiming(timeDiff, tol))
        g1 == [g EXCEPT !.rhythmTolerance = tol]
        g2 == IF g.lastKey # key
              THEN [g1 EXCEPT !.rhythmScore = rs, !.skier.speed = SpeedOf(rs)]
              ELSE g1
    IN  [g2 EXCEPT !.lastKey = key, !.lastKeyTime = t]

\* Mutant: the jump key accepted in the air
PlayingKey_doubleJump(g, key, t) ==
    IF key \in DirectionalKeys THEN Directional(g, key, t)
    ELSE IF key = " "
         THEN [g EXCEPT !.skier.isJumping = TRUE, !.skier.yVelocity = JumpVelocity * 1000]
    ELSE IF key = "ArrowDown"
         THEN IF ~g.skier.isDucking /\ ~g.skier.isJumping
              THEN [g EXCEPT !.skier.isDucking = TRUE, !.skier.duckTimer = DuckTicks,
                             !.duckAt = g.ticks]
              ELSE g
    ELSE g

\* Mutant: the duck key restarts a duck in progress
PlayingKey_reduck(g, key, t) ==
    IF key \in DirectionalKeys THEN Directional(g, key, t)
    ELSE IF key = " " /\ ~g.skier.isJumping
         THEN [g EXCEPT !.skier.isJumping = TRUE, !.skier.yVelocity = JumpVelocity * 1000]
    ELSE IF key = "ArrowDown"
         THEN IF ~g.skier.isJumping
              THEN [g EXCEPT !.skier.isDucking = TRUE, !.skier.duckTimer = DuckTicks,
                             !.duckAt = g.ticks]
              ELSE g
    ELSE g

\* The keys handled while the screen is PLAYING
PlayingKey(g, key, t) ==
    IF key \in DirectionalKeys THEN Directional(g, key, t)
    ELSE IF key = " " /\ ~g.skier.isJumping
         THEN [g EXCEPT !.skier.isJumping = TRUE, !.skier.yVelocity = JumpVelocity * 1000]
    ELSE IF key = "ArrowDown"
         THEN IF ~g.skier.isDucking /\ ~g.skier.isJumping
              THEN [g EXCEPT !.skier.isDucking = TRUE, !.skier.duckTimer = DuckTicks,
                             !.duckAt = g.ticks]
              ELSE g
    ELSE g

\* Mutant: Space on the game-over screen starts the next run at once
handleKeyDown_restart(g, key, t) ==
    IF g.currentScreen # GameScreen.PLAYING
    THEN IF key = " " THEN startGame(g, t) ELSE g
    ELSE PlayingKey(g, key, t)

\* Mutant: the handler without its screen check
handleKeyDown_anyScreen(g, key, t) == PlayingKey(g, key, t)

handleKeyDown(g, key, t) ==
    IF g.currentScreen # GameScreen.PLAYING
    THEN IF key = " " /\ g.currentScreen = GameScreen.START THEN startGame(g, t)
         ELSE IF key = " " /\ g.currentScreen = GameScreen.GAME_OVER
              THEN renderStartScreen(g)
         ELSE g
    ELSE PlayingKey(g, key, t)

----------------------------------------------------------------------------
(* The click handlers of init() and the start button of index.html *)

\* canvas 'click' listener; the body listener that the click bubbles to does
\* nothing more (screen already PLAYING, or target is the canvas)
canvasClick(g, t) ==
    IF g.currentScreen = GameScreen.START THEN startGame(g, t)
    ELSE IF g.currentScreen = GameScreen.GAME_OVER THEN renderStartScreen(g)
    ELSE g

\* document.body 'click' listener, target neither a button nor the canvas
bodyClick(g, t) ==
    IF g.currentScreen # GameScreen.PLAYING
    THEN IF g.currentScreen = GameScreen.START THEN startGame(g, t)
         ELSE IF g.currentScreen = GameScreen.GAME_OVER THEN renderStartScreen(g)
         ELSE g
    ELSE g

\* manualStartGame(): startGame is always defined once game.js has loaded
manualStartGame(g, t) == startGame(g, t)

----------------------------------------------------------------------------
(* One animation frame: the browser runs the callbacks queued by            *)
(* requestAnimationFrame, each a gameLoop() call                            *)

RECURSIVE RunCallbacks(_, _, _, _)
RunCallbacks(g, k, t, rnd) ==
    IF k = 0 THEN g ELSE RunCallbacks(gameLoop(g, t, rnd), k - 1, t, rnd)

animationFrame(g, t, rnd) ==
    RunCallbacks([g EXCEPT !.pendingFrames = 0], g.pendingFrames, t, rnd)

----------------------------------------------------------------------------
(* The high-score server (src/server/server.js).  A request is a record     *)
(* [header, query, origin, hostname, file, name, score]: the X-API-Key      *)
(* header and the api_key query parameter ("" when absent), the Origin      *)
(* header, the host name the request was sent to, the :file parameter and   *)
(* the JSON body (name "" and score 0 when absent).  The server state is    *)
(* threaded as a record S.                                                  *)

API_KEY == "API_KEY_PLACEHOLDER"
\* The number of entries the leaderboard keeps
TopScores == 20
\* The scores of initialData, in file order
InitialData == <<1005, 950, 900, 850, 800>>
\* The domain the README names
AllowedOrigin == "https://einarnot.github.io"

S == [highScoresFile |-> highScoresFile, highScoresCollection |-> highScoresCollection,
      nextDocId |-> nextDocId, pending |-> pending, response |-> response]

Respond(s, status, entries) ==
    [s EXCEPT !.response = [status |-> status, entries |-> entries]]

\* TRUE when the middleware calls next(), FALSE when it answers 401
verifyApiKey(req) ==
    LET apiKey == IF req.header # "" THEN req.header ELSE req.query
    IN  ~(apiKey = "" \/ apiKey # API_KEY)

isLocalhost(req) == req.hostname \in {"localhost", "127.0.0.1"}

\* highScores.push(newScore) and the stable sort by score, highest first, of
\* a list that is already in that order
PushAndSort(highScores, sc) ==
    LET k == Cardinality({i \in DOMAIN highScores : highScores[i] >= sc})
    IN  SubSeq(highScores, 1, k) \o <<sc>> \o SubSeq(highScores, k + 1, Len(highScores))

\* Array.prototype.slice(0, n)
Slice(seq, n) == SubSeq(seq, 1, Min(n, Len(seq)))

\* The last documents of orderBy('score', 'desc'): those of the lowest score
LowestOf(collection) ==
    IF collection = {} THEN {[id |-> 0, score |-> 0]}
    ELSE {d \in collection : \A e \in collection : d.score <= e.score}

\* GET /badwords/:file
getBadwords(s, req) ==
    IF ~verifyApiKey(req) THEN Respond(s, 401, 0)
    ELSE IF req.file # "en.txt" /\ req.file # "no.txt" THEN Respond(s, 404, 0)
    ELSE Respond(s, 200, 0)

\* OPTIONS on any path: the CORS preflight handler, behind the key check
options(s, req) ==
    IF ~verifyApiKey(req) THEN Respond(s, 401, 0)
    ELSE Respond(s, 200, 0)

\* GET /highscores
getHighscores(s, req) ==
    IF ~verifyApiKey(req) THEN Respond(s, 401, 0)
    ELSE IF isLocalhost(req) THEN Respond(s, 200, Len(s.highScoresFile))
    ELSE Respond(s, 200, Min(Cardinality(s.highScoresCollection), TopScores))

\* POST /highscores up to its first await: on localhost the whole handler;
\* in production the handler then waits for the Firestore query
postHighscores(s, req, id) ==
    IF ~verifyApiKey(req) THEN Respond(s, 401, 0)
    ELSE IF req.name = "" \/ req.score = 0 THEN Respond(s, 400, 0)
    ELSE IF isLocalhost(req)
         THEN Respond([s EXCEPT !.highScoresFile =
                              Slice(PushAndSort(@, req.score), TopScores)], 201, 0)
    ELSE [s EXCEPT !.pending = @ \cup {[id |-> id, score |-> req.score, pc |-> "get",
                                          length |-> 0,
                                          lowestScore |-> [id |-> 0, score |-> 0]]}]

\* The Firestore query of handler h completes with the documents stored at
\* that moment, lowestScore the last of them; the handler decides
afterGet(s, h, lowestScore) ==
    LET length == Cardinality(s.highScoresCollection)
    IN  IF length < TopScores \/ h.score > lowestScore.score
        THEN [s EXCEPT !.pending = (@ \ {h}) \cup
                  {[h EXCEPT !.pc = "add", !.length = length, !.lowestScore = lowestScore]}]
        ELSE Respond([s EXCEPT !.pending = @ \ {h}], 200, 0)

\* highScoresCollection.add() of handler h completes
afterAdd(s, h) ==
    LET added == [s EXCEPT !.highScoresCollection =
                               @ \cup {[id |-> s.nextDocId, score |-> h.score]},
                           !.nextDocId = @ + 1]
    IN  IF h.length >= TopScores
        THEN [added EXCEPT !.pending = (@ \ {h}) \cup {[h EXCEPT !.pc = "delete"]}]
        ELSE Respond([added EXCEPT !.pending = @ \ {h}], 201, 0)

\* highScoresCollection.doc(lowestScore.id).delete() of handler h completes
afterDelete(s, h) ==
    Respond([s EXCEPT !.highScoresCollection = {d \in @ : d.id # h.lowestScore.id},
                      !.pending = @ \ {h}], 201, 0)

\* POST /reset-highscores
resetHighscores(s, req) ==
    IF ~verifyApiKey(req) THEN Respond(s, 401, 0)
    ELSE IF ~isLocalhost(req) THEN Respond(s, 403, 0)
    ELSE Respond([s EXCEPT !.highScoresFile = InitialData], 200, 0)

Routes == {"GET /badwords", "OPTIONS", "GET /highscores", "POST /highscores",
           "POST /reset-highscores"}

\* What the server does on a request, up to the handler's first await
Serve(s, route, req, id) ==
    CASE route = "GET /badwords" -> getBadwords(s, req)
      [] route = "OPTIONS" -> options(s, req)
      [] route = "GET /highscores" -> getHighscores(s, req)
      [] route = "POST /highscores" -> postHighscores(s, req, id)
      [] route = "POST /reset-highscores" -> resetHighscores(s, req)

----------------------------------------------------------------------------
(* Bounds on the environment *)

\* What one behaviour explores: how many directional keys and jump/duck keys,
\* how many starts, up to which time (ms) frames run, how long after the
\* previous recorded key (or the start) a directional key is pressed, whether
\* a directional key may repeat the recorded side, between which times the
\* jump/duck keys are pressed, which values the draws of the spawners take
\* (obstacle type and offset, spectator side and distance), from when on a
\* second start is made, and from when on the time after the loop has
\* stopped is followed.
\*   steady:  a long run of keys on the beat
\*   ragged:  a few keys too early (one frame), on the beat or too late
\*   poses:   jump and duck keys at any frame of a short run
\*   course:  a run long enough to meet the obstacles, and the run after it
\*   hazard:  jump and duck keys as the first obstacle arrives, at base speed
\*   hurdle:  a jump as a bridge arrives at high speed (keys on the beat)
\*   pileup:  a duck as a bridge and the obstacle after it arrive together
\*   pass:    a jump over the first fallen skier, and on until it is left behind
\*   result:  a run on the beat that ends at the second obstacle with a score
\*            above PromptMinScore, the wait after it, and a second start
\*   burst:   directional keys that arrive before the first frame of a run
SteadyKeys == 7
SteadyTime == 2900
RaggedKeys == 3
RaggedTime == 1300
PoseKeys == 2
PoseTime == 850
CourseKeys == 1
CourseStarts == 2
CourseTime == 6200
HazardPoses == 2
HazardFrom == 5200
HazardTime == 5500
HurdleKeys == 7
HurdlePoses == 1
HurdleFrom == 3000
HurdleLast == 3130
HurdleTime == 3400
PileupPoses == 1
PileupFrom == 6600
PileupLast == 6650
PileupTime == 7300
PassPoses == 1
PassFrom == 5100
PassLast == 5200
PassTime == 6800
ResultKeys == 11
ResultPoses == 1
ResultStarts == 2
ResultFrom == 3020
ResultLast == 3030
ResultTime == 6000
ResultRestart == 5900
ResultIdle == 5184
BurstKeys == 3
BurstTime == 160
\* The late key: 38 frames, past TARGET_RHYTHM + BASE_RHYTHM_TOLERANCE
LateDelta == 38 * FrameMs

Scenarios ==
    { [dirKeys |-> SteadyKeys, poseKeys |-> 0, starts |-> 1, until |-> SteadyTime,
       deltas |-> {TARGET_RHYTHM}, sameSide |-> TRUE,
       poseFrom |-> 0, poseUntil |-> SteadyTime,
       types |-> RandomValues, offsets |-> {0},
       sides |-> RandomValues, distances |-> {0},
       restartFrom |-> 0, idleFrom |-> SteadyTime + 1],
      [dirKeys |-> RaggedKeys, poseKeys |-> 0, starts |-> 1, until |-> RaggedTime,
       deltas |-> {FrameMs, TARGET_RHYTHM, LateDelta}, sameSide |-> TRUE,
       poseFrom |-> 0, poseUntil |-> RaggedTime,
       types |-> RandomValues, offsets |-> {0, 999},
       sides |-> RandomValues, distances |-> {0, 999},
       restartFrom |-> 0, idleFrom |-> RaggedTime + 1],
      [dirKeys |-> 0, poseKeys |-> PoseKeys, starts |-> 1, until |-> PoseTime,
       deltas |-> {}, sameSide |-> TRUE, poseFrom |-> 0, poseUntil |-> PoseTime,
       types |-> RandomValues, offsets |-> {0},
       sides |-> RandomValues, distances |-> {0},
       restartFrom |-> 0, idleFrom |-> PoseTime + 1],
      [dirKeys |-> CourseKeys, poseKeys |-> 0, starts |-> CourseStarts,
       until |-> CourseTime,
       deltas |-> {FrameMs, TARGET_RHYTHM, LateDelta}, sameSide |-> TRUE,
       poseFrom |-> 0, poseUntil |-> CourseTime,
       types |-> RandomValues, offsets |-> {0},
       sides |-> {0}, distances |-> {0},
       restartFrom |-> 0, idleFrom |-> CourseTime + 1],
      [dirKeys |-> 0, poseKeys |-> HazardPoses, starts |-> 1, until |-> HazardTime,
       deltas |-> {}, sameSide |-> TRUE,
       poseFrom |-> HazardFrom, poseUntil |-> HazardTime,
       types |-> RandomValues, offsets |-> {0},
       sides |-> {0}, distances |-> {0},
       restartFrom |-> 0, idleFrom |-> HazardTime + 1],
      [dirKeys |-> HurdleKeys, poseKeys |-> HurdlePoses, starts |-> 1,
       until |-> HurdleTime,
       deltas |-> {TARGET_RHYTHM}, sameSide |-> FALSE,
       poseFrom |-> HurdleFrom, poseUntil |-> HurdleLast,
       types |-> {999}, offsets |-> {0},
       sides |-> {0}, distances |-> {0},
       restartFrom |-> 0, idleFrom |-> HurdleTime + 1],
      [dirKeys |-> 0, poseKeys |-> PileupPoses, starts |-> 1, until |-> PileupTime,
       deltas |-> {}, sameSide |-> TRUE,
       poseFrom |-> PileupFrom, poseUntil |-> PileupLast,
       types |-> RandomValues, offsets |-> {0, 999},
       sides |-> {0}, distances |-> {0},
       restartFrom |-> 0, idleFrom |-> PileupTime + 1],
      [dirKeys |-> 0, poseKeys |-> PassPoses, starts |-> 1, until |-> PassTime,
       deltas |-> {}, sameSide |-> TRUE,
       poseFrom |-> PassFrom, poseUntil |-> PassLast,
       types |-> {0}, offsets |-> {0},
       sides |-> {0}, distances |-> {0},
       restartFrom |-> 0, idleFrom |-> PassTime + 1],
      [dirKeys |-> ResultKeys, poseKeys |-> ResultPoses, starts |-> ResultStarts,
       until |-> ResultTime,
       deltas |-> {TARGET_RHYTHM}, sameSide |-> FALSE,
       poseFrom |-> ResultFrom, poseUntil |-> ResultLast,
       types |-> {999}, offsets |-> {0},
       sides |-> {0}, distances |-> {0},
       restartFrom |-> ResultRestart, idleFrom |-> ResultIdle],
      [dirKeys |-> BurstKeys, poseKeys |-> 0, starts |-> 1, until |-> BurstTime,
       deltas |-> {0}, sameSide |-> TRUE,
       poseFrom |-> 0, poseUntil |-> BurstTime,
       types |-> {0}, offsets |-> {0},
       sides |-> {0}, distances |-> {0},
       restartFrom |-> 0, idleFrom |-> BurstTime + 1] }

\* The clients of the server: how many submissions are accepted for
\* processing, how many of them are the low score, and how many production
\* handlers wait on Firestore at once.  The first WarmUp submissions are
\* handled one at a time and carry rising scores.
MaxPosts == 21
WarmUp == 19
MaxInFlight == 2
MaxLowPosts == 1
LowScore == 1

\* No client in a behaviour of the game alone
NoTraffic == [hostname |-> "localhost", posted |-> 0, low |-> 0]

\* The server runs on the developer's machine or in production
Deployments ==
    { [hostname |-> h, posted |-> 0, low |-> 0] : h \in {"localhost", "skiing.example"} }

Credentials ==
    [header : {"", API_KEY, "wrong-key"}, query : {"", API_KEY, "wrong-key"},
     origin : {AllowedOrigin, "https://elsewhere.example"}]

\* The scores a submission can carry now: none, the low one, the next rising one
ScoresNow(tr) == {0, LowScore, 100 * (tr.posted + 1)}

\* The requests a client can send to a route
Requests(route, tr) ==
    { [header |-> c.header, query |-> c.query, origin |-> c.origin,
       hostname |-> tr.hostname, file |-> b.file, name |-> b.name, score |-> b.score] :
        c \in Credentials,
        b \in IF route = "POST /highscores"
              THEN [file : {""}, name : {"", "Ann"}, score : ScoresNow(tr)]
              ELSE IF route = "GET /badwords"
              THEN [file : {"en.txt", "no.txt", "server.js"}, name : {""}, score : {0}]
              ELSE [file : {""}, name : {""}, score : {0}] }

\* A submission that passes the key check and the validation
Accepted(req) == verifyApiKey(req) /\ req.name # "" /\ req.score # 0

\* The draws a frame can read: only a tick that spawns reads Math.random()
ObstacleDraws(g) ==
    IF g.spawnTimer + g.pendingFrames >= SPAWN_INTERVAL
    THEN [type : budget.types, offset : budget.offsets]
    ELSE {[type |-> 0, offset |-> 0]}

SpectatorDraws(g) ==
    IF g.spectatorSpawnTimer + g.pendingFrames >= SPECTATOR_SPAWN_INTERVAL
    THEN [side : budget.sides, distance : budget.distances]
    ELSE {[side |-> 0, distance |-> 0]}

Draws(g) ==
    { [type |-> o.type, offset |-> o.offset, side |-> s.side, distance |-> s.distance] :
        o \in ObstacleDraws(g), s \in SpectatorDraws(g) }

----------------------------------------------------------------------------
(* Initial state: game.js loaded and init() done (start screen rendered) *)

InitSkier == [y |-> GroundY, speed |-> 0, isJumping |-> FALSE, isDucking |-> FALSE,
              duckTimer |-> 0, yVelocity |-> 0, height |-> NormalHeight * 1000]

NoSnapshot == [worldX |-> 0, score |-> 0, rhythmScore |-> 300,
               rhythmTolerance |-> BASE_RHYTHM_TOLERANCE * 1000, lastKey |-> "none",
               lastKeyTime |-> 0, skier |-> InitSkier, obstacles |-> <<>>,
               spectators |-> <<>>, spawnTimer |-> 0, spectatorSpawnTimer |-> 0]

NoPrompt == [asked |-> FALSE, scored |-> 0, final |-> 0]

GameInit ==
    /\ currentScreen = GameScreen.START
    /\ score = 0
    /\ worldX = 0
    /\ skier = InitSkier
    /\ lastKeyTime = 0
    /\ rhythmTolerance = BASE_RHYTHM_TOLERANCE * 1000
    /\ lastKey = "none"
    /\ rhythmScore = 300
    /\ obstacles = <<>>
    /\ spawnTimer = 0
    /\ spectators = <<>>
    /\ spectatorSpawnTimer = 0
    /\ now = 0
    /\ pendingFrames = 0
    /\ startButtonShown = TRUE
    /\ gameOverCalls = 0
    /\ atGameOver = NoSnapshot
    /\ ticks = 0
    /\ duckAt = -1
    /\ timers = <<>>
    /\ namePrompt = NoPrompt

\* The server has just created highscores.json; no request has arrived
ServerInit ==
    /\ highScoresFile = InitialData
    /\ highScoresCollection = {}
    /\ nextDocId = 1
    /\ pending = {}
    /\ response = [status |-> 0, entries |-> 0]

Init ==
    /\ GameInit
    /\ budget \in Scenarios
    /\ ServerInit
    /\ traffic = NoTraffic

\* The next state's program variables are the fields of g
Commit(g) ==
    /\ currentScreen' = g.currentScreen
    /\ score' = g.score
    /\ worldX' = g.worldX
    /\ skier' = g.skier
    /\ lastKeyTime' = g.lastKeyTime
    /\ rhythmTolerance' = g.rhythmTolerance
    /\ lastKey' = g.lastKey
    /\ rhythmScore' = g.rhythmScore
    /\ obstacles' = g.obstacles
    /\ spawnTimer' = g.spawnTimer
    /\ spectators' = g.spectators
    /\ spectatorSpawnTimer' = g.spectatorSpawnTimer
    /\ pendingFrames' = g.pendingFrames
    /\ startButtonShown' = g.startButtonShown
    /\ gameOverCalls' = g.gameOverCalls
    /\ atGameOver' = g.atGameOver
    /\ ticks' = g.ticks
    /\ duckAt' = g.duckAt
    /\ timers' = g.timers
    /\ namePrompt' = g.namePrompt
    /\ UNCHANGED serverVars

\* A handler that starts a session uses up one of the starts explored
\* (a second start is explored from budget.restartFrom on)
StartsLeft(g) ==
    g.currentScreen = GameScreen.START =>
        budget.starts > 0 /\ (now = 0 \/ now >= budget.restartFrom)
SpendStart(b) == [b EXCEPT !.starts = @ - 1]

----------------------------------------------------------------------------
(* Actions: one per handler or callback *)

\* A keydown event (keyboard, or one of the on-screen control buttons)
KeyDown(key) ==
    /\ currentScreen = GameScreen.PLAYING /\ key \in DirectionalKeys
          => /\ budget.dirKeys > 0
             /\ (now - lastKeyTime) \in budget.deltas
             /\ budget.sameSide \/ key # lastKey
    /\ currentScreen = GameScreen.PLAYING /\ key \in {" ", "ArrowDown"}
          => /\ budget.poseKeys > 0
             /\ now >= budget.poseFrom
             /\ now <= budget.poseUntil
    /\ key = " " => StartsLeft(G)
    /\ Commit(handleKeyDown(G, key, now))
    /\ budget' = IF currentScreen = GameScreen.START /\ key = " " THEN SpendStart(budget)
                 ELSE IF currentScreen = GameScreen.PLAYING /\ key \in DirectionalKeys
                      THEN [budget EXCEPT !.dirKeys = @ - 1]
                 ELSE IF currentScreen = GameScreen.PLAYING /\ key \in {" ", "ArrowDown"}
                      THEN [budget EXCEPT !.poseKeys = @ - 1]
                 ELSE budget
    /\ now' = now

CanvasClick ==
    /\ StartsLeft(G)
    /\ Commit(canvasClick(G, now))
    /\ budget' = IF currentScreen = GameScreen.START THEN SpendStart(budget) ELSE budget
    /\ now' = now

BodyClick ==
    /\ StartsLeft(G)
    /\ Commit(bodyClick(G, now))
    /\ budget' = IF currentScreen = GameScreen.START THEN SpendStart(budget) ELSE budget
    /\ now' = now

\* The START GAME button can be clicked while it is displayed
StartButtonClick ==
    /\ startButtonShown
    /\ budget.starts > 0
    /\ now = 0 \/ now >= budget.restartFrom
    /\ Commit(manualStartGame(G, now))
    /\ budget' = SpendStart(budget)
    /\ now' = now

\* The next animation frame, FrameMs later, runs the queued gameLoop
\* callbacks; the timers that come due before it run first
AnimationFrame ==
    /\ pendingFrames > 0
    /\ Due(G) = {}
    /\ now + FrameMs <= budget.until
    /\ \E rnd \in Draws(G) : Commit(animationFrame(Aged(G), now + FrameMs, rnd))
    /\ now' = now + FrameMs
    /\ UNCHANGED budget

\* FrameMs pass with no frame callback queued, while a timer waits (explored
\* from budget.idleFrom on)
IdleFrame ==
    /\ pendingFrames = 0
    /\ timers # <<>>
    /\ Due(G) = {}
    /\ now >= budget.idleFrom
    /\ now + FrameMs <= budget.until
    /\ Commit(Aged(G))
    /\ now' = now + FrameMs
    /\ UNCHANGED budget

\* A callback set by gameOver() with setTimeout runs
Timeout ==
    /\ \E i \in Due(G) : Commit(timeout(G, i))
    /\ UNCHANGED <<now, budget>>

Next ==
    \/ \E key \in Keys : KeyDown(key)
    \/ CanvasClick
    \/ BodyClick
    \/ StartButtonClick
    \/ AnimationFrame
    \/ IdleFrame
    \/ Timeout

Spec == Init /\ [][Next]_vars

----------------------------------------------------------------------------
(* The server alone: one action per route and per Firestore completion *)

CommitServer(s) ==
    /\ highScoresFile' = s.highScoresFile
    /\ highScoresCollection' = s.highScoresCollection
    /\ nextDocId' = s.nextDocId
    /\ pending' = s.pending
    /\ response' = s.response
    /\ UNCHANGED gameVars

ServerStart ==
    /\ GameInit
    /\ budget = [dirKeys |-> 0, poseKeys |-> 0, starts |-> 0, until |-> 0,
                 deltas |-> {}, sameSide |-> TRUE, poseFrom |-> 0, poseUntil |-> 0,
                 types |-> {0}, offsets |-> {0}, sides |-> {0}, distances |-> {0},
       restartFrom |-> 0, idleFrom |-> 1]
    /\ ServerInit
    /\ traffic \in Deployments

GetBadwords ==
    /\ \E req \in Requests("GET /badwords", traffic) : CommitServer(getBadwords(S, req))
    /\ UNCHANGED traffic

Options ==
    /\ \E req \in Requests("OPTIONS", traffic) : CommitServer(options(S, req))
    /\ UNCHANGED traffic

GetHighscores ==
    /\ \E req \in Requests("GET /highscores", traffic) : CommitServer(getHighscores(S, req))
    /\ UNCHANGED traffic

PostHighscores ==
    \E req \in Requests("POST /highscores", traffic) :
        /\ Accepted(req) =>
              /\ traffic.posted < MaxPosts
              /\ Cardinality(pending) < (IF traffic.posted >= WarmUp THEN MaxInFlight ELSE 1)
              /\ req.score = LowScore =>
                    traffic.posted >= WarmUp /\ traffic.low < MaxLowPosts
        /\ CommitServer(postHighscores(S, req, traffic.posted))
        /\ traffic' = IF ~Accepted(req) THEN traffic
                      ELSE [traffic EXCEPT !.posted = @ + 1,
                                           !.low = IF req.score = LowScore THEN @ + 1 ELSE @]

QueryDone ==
    /\ \E h \in pending :
          /\ h.pc = "get"
          /\ \E lowestScore \in LowestOf(highScoresCollection) :
                CommitServer(afterGet(S, h, lowestScore))
    /\ UNCHANGED traffic

AddDone ==
    /\ \E h \in pending : h.pc = "add" /\ CommitServer(afterAdd(S, h))
    /\ UNCHANGED traffic

DeleteDone ==
    /\ \E h \in pending : h.pc = "delete" /\ CommitServer(afterDelete(S, h))
    /\ UNCHANGED traffic

ResetHighscores ==
    /\ \E req \in Requests("POST /reset-highscores", traffic) :
          CommitServer(resetHighscores(S, req))
    /\ UNCHANGED traffic

ServerNext ==
    \/ GetBadwords
    \/ Options
    \/ GetHighscores
    \/ PostHighscores
    \/ QueryDone
    \/ AddDone
    \/ DeleteDone
    \/ ResetHighscores

ServerSpec == ServerStart /\ [][ServerNext]_vars

----------------------------------------------------------------------------
(* The rhythm engine alone, for what holds in the long run.  The world is   *)
(* left where it was at the start of the run: a tick is the rhythm half of  *)
(* update(), src/game.js:323-327, which reads only the time since the       *)
(* recorded key.  handleKeyDown() and update() use the clock only through   *)
(* that difference, so the clock is restarted at each recorded key and      *)
(* stopped RhythmHorizon after it, from where on every tick decays and      *)
(* every alternation is late.                                               *)

RhythmHorizon == LateDelta
\* A directional key comes on the beat or late
RhythmDeltas == {TARGET_RHYTHM, LateDelta}

RhythmSession ==
    [dirKeys |-> 0, poseKeys |-> 0, starts |-> 1, until |-> RhythmHorizon,
     deltas |-> RhythmDeltas, sameSide |-> TRUE, poseFrom |-> 0, poseUntil |-> 0,
     types |-> {0}, offsets |-> {0}, sides |-> {0}, distances |-> {0},
       restartFrom |-> 0, idleFrom |-> RhythmHorizon + 1]

RhythmInit ==
    /\ GameInit
    /\ budget = RhythmSession
    /\ ServerInit
    /\ traffic = NoTraffic

RhythmKey(key) ==
    /\ currentScreen = GameScreen.PLAYING
    /\ key \in DirectionalKeys
    /\ (now - lastKeyTime) \in budget.deltas
    /\ Commit([handleKeyDown(G, key, now) EXCEPT !.lastKeyTime = 0])
    /\ now' = 0
    /\ UNCHANGED budget

RhythmTick ==
    /\ currentScreen = GameScreen.PLAYING
    /\ pendingFrames > 0
    /\ Commit(Decay(G, now + FrameMs))
    /\ now' = Min(now + FrameMs, lastKeyTime + RhythmHorizon)
    /\ UNCHANGED budget

RhythmNext ==
    \/ StartButtonClick
    \/ \E key \in DirectionalKeys : RhythmKey(key)
    \/ RhythmTick

\* requestAnimationFrame: a run that is in progress keeps ticking
RhythmSpec == RhythmInit /\ [][RhythmNext]_vars /\ WF_vars(RhythmTick)

----------------------------------------------------------------------------
(* Claims *)

InputState(g) ==
    [rhythmScore |-> g.rhythmScore, rhythmTolerance |-> g.rhythmTolerance,
     lastKey |-> g.lastKey, lastKeyTime |-> g.lastKeyTime, speed |-> g.skier.speed,
     isJumping |-> g.skier.isJumping, isDucking |-> g.skier.isDucking,
     yVelocity |-> g.skier.yVelocity, duckTimer |-> g.skier.duckTimer]

\* The defaults of a fresh session as they stand when startGame() returns:
\* startGame() runs the first tick itself, so the cursor has advanced by the
\* starting speed and both spawn timers read 1.
FreshStart ==
    /\ skier = [InitSkier EXCEPT !.speed = MaxSpeed * 200]
    /\ rhythmScore = 300
    /\ lastKey = "none"
    /\ lastKeyTime = now
    /\ rhythmTolerance = BASE_RHYTHM_TOLERANCE * 1000
    /\ worldX = MaxSpeed * 200
    /\ score = 0
    /\ obstacles = <<>>
    /\ spectators = <<>>
    /\ spawnTimer = 1
    /\ spectatorSpawnTimer = 1

\* C2: immediately after any start the skier, the rhythm state, the world
\* cursor, the score, the entity sets and both spawn timers have their fresh
\* default values, whatever happened in earlier sessions.
C2_FullReset ==
    [][(currentScreen # GameScreen.PLAYING /\ currentScreen' = GameScreen.PLAYING)
          => FreshStart']_vars

\* C3: a tick (a frame callback) run while the session is NotStarted or Ended
\* changes no skier, rhythm, world-cursor, score or entity state.
C3_TickNoOp ==
    [][(currentScreen # GameScreen.PLAYING /\ now' # now) => Sim(G)' = Sim(G)]_vars

\* The frame callback left pending by the tick that ended the run has fired
C3_Witness ==
    currentScreen = GameScreen.GAME_OVER /\ gameOverCalls > 0 /\ pendingFrames = 0

\* C4 as stated: directional, jump and duck inputs received while NotStarted
\* or Ended leave the input-visible state unchanged.
C4_AllInputsIgnored ==
    currentScreen # GameScreen.PLAYING =>
        \A key \in {"ArrowLeft", "ArrowRight", " ", "ArrowDown"} :
            InputState(handleKeyDown(G, key, now)) = InputState(G)

\* C4 amended: directional and duck inputs received while NotStarted or Ended
\* change nothing at all; the jump key (Space) received while Ended only
\* dismisses the game-over screen and leaves the input-visible state unchanged;
\* received while NotStarted it is the start command.
C4_InputsIgnored ==
    currentScreen # GameScreen.PLAYING =>
        /\ \A key \in {"ArrowLeft", "ArrowRight", "ArrowDown"} :
              handleKeyDown(G, key, now) = G
        /\ currentScreen = GameScreen.GAME_OVER =>
              /\ InputState(handleKeyDown(G, " ", now)) = InputState(G)
              /\ handleKeyDown(G, " ", now).currentScreen = GameScreen.START
        /\ currentScreen = GameScreen.START =>
              handleKeyDown(G, " ", now) = startGame(G, now)

\* An ended run that keys had acted on: a recorded side, a decayed rhythm
C4_Witness ==
    /\ currentScreen = GameScreen.GAME_OVER
    /\ lastKey \in DirectionalKeys
    /\ rhythmScore # 300

\* C5: once a collision has switched the session to Ended, the world cursor,
\* score, rhythm quality, skier speed and pose and the entity sets keep the
\* values they had at that moment, also for the rest of the tick that detected
\* the collision.
C5_FrozenFromCollision ==
    currentScreen = GameScreen.GAME_OVER =>
        /\ worldX = atGameOver.worldX
        /\ score = atGameOver.score
        /\ rhythmScore = atGameOver.rhythmScore
        /\ skier = atGameOver.skier
        /\ obstacles = atGameOver.obstacles
        /\ spectators = atGameOver.spectators

\* C6: rhythm quality is within [0.1, 1.0] in every reachable state.
C6_RhythmBounds == rhythmScore >= 100 /\ rhythmScore <= 1000

\* A bad beat has just been clamped at the floor
C6_Witness ==
    /\ currentScreen = GameScreen.PLAYING
    /\ rhythmScore = 100
    /\ lastKey \in DirectionalKeys
    /\ lastKeyTime = now

\* C7 as stated: speed is within [maxSpeed * 0.2, maxSpeed] in every
\* reachable state.
C7_SpeedBounds == skier.speed >= MaxSpeed * 200 /\ skier.speed <= MaxSpeed * 1000

\* C7 amended: speed is within [maxSpeed * 0.2, maxSpeed] in every state from
\* the first start on; before the first start it is 0.
C7_SpeedBoundsOnceStarted ==
    IF currentScreen = GameScreen.START /\ gameOverCalls = 0
    THEN skier.speed = 0
    ELSE C7_SpeedBounds

\* Top speed during a run
C7_Witness == currentScreen = GameScreen.PLAYING /\ skier.speed = MaxSpeed * 1000

\* C8: the score equals floor(worldCursor / 10) in every state between
\* operations, whatever the session state.
C8_ScoreFromCursor == score = ScoreOf(worldX)

\* Immediately after the transition to Ended, with a positive score
C8_Witness ==
    currentScreen = GameScreen.GAME_OVER /\ pendingFrames = 1 /\ score > 0

\* A directional key of the other side, exactly TARGET_RHYTHM after the last
\* recorded key
PerfectBeat ==
    /\ currentScreen = GameScreen.PLAYING
    /\ now' = now
    /\ lastKey' \in DirectionalKeys
    /\ lastKey' # lastKey
    /\ lastKeyTime' = now
    /\ now - lastKeyTime = TARGET_RHYTHM

\* C9: while Running, every alternating directional input exactly TARGET after
\* the previous one strictly increases rhythm quality until it is 1.0, where
\* it stays; the ticks in between (up to TARGET after a key) do not lower it.
C9_PerfectBeats ==
    [][/\ PerfectBeat =>
            IF rhythmScore < 1000 THEN rhythmScore' > rhythmScore
            ELSE rhythmScore' = 1000
       /\ (currentScreen = GameScreen.PLAYING /\ now' # now
              /\ now' - lastKeyTime <= TARGET_RHYTHM) => rhythmScore' = rhythmScore]_vars

\* A key on the beat pressed with rhythm quality already at the cap
C9_Witness ==
    /\ currentScreen = GameScreen.PLAYING
    /\ rhythmScore = 1000
    /\ rhythmTolerance = MIN_RHYTHM_TOLERANCE * 1000
    /\ lastKeyTime = now
    /\ budget.deltas = {TARGET_RHYTHM}

C11_NeverBoth == ~(skier.isJumping /\ skier.isDucking)

\* C12: a jump input received while the jumping flag is set changes nothing:
\* vertical position and vertical velocity (and every other field) stay as
\* they are.
C12_NoDoubleJump ==
    (currentScreen = GameScreen.PLAYING /\ skier.isJumping) =>
        handleKeyDown(G, " ", now) = G

\* Two jump keys and no duck key were pressed within the duration of one jump:
\* the second one arrived in the air
C12_Witness ==
    /\ currentScreen = GameScreen.PLAYING
    /\ skier.isJumping
    /\ skier.y < GroundY
    /\ skier.yVelocity > JumpVelocity * 1000
    /\ duckAt = -1
    /\ ticks < 49
    /\ budget.poseFrom = 0
    /\ budget.poseKeys = PoseKeys - 2

C14_HeightByFlag ==
    skier.height = IF skier.isDucking THEN DuckHeight * 1000 ELSE NormalHeight * 1000

\* C14 amended: the collision height is 25 whenever the ducking flag is set
\* and a tick has run since the duck was accepted, and 60 otherwise: between
\* the accepted duck input and the next tick the flag is set and the height
\* is still 60.
C14_HeightByFlagAfterTick ==
    skier.height = IF skier.isDucking /\ ticks > duckAt
                   THEN DuckHeight * 1000 ELSE NormalHeight * 1000

\* The first tick of a duck has run
C14_Witness ==
    /\ currentScreen = GameScreen.PLAYING
    /\ skier.isDucking
    /\ ticks = duckAt + 1
    /\ skier.height = DuckHeight * 1000

\* Whether obstacle o of the checked state g is of type ty and overlaps the
\* skier's horizontal footprint
InFootprint(g, i, ty) ==
    g.obstacles[i].type = ty /\ OverlapsX(g.obstacles[i], g.worldX)

\* Whether obstacle i of the checked state g makes the check call gameOver()
Hits(g, i) == Collides(g.obstacles[i], g.skier, g.worldX)

\* C15: in any tick whose collision check finds a fallen-skier obstacle
\* overlapping the skier's horizontal footprint while the skier is on the
\* ground and not jumping, the session transitions to Ended, ducking or not.
C15_DuckNoProtection ==
    currentScreen = GameScreen.PLAYING =>
        \A rnd \in Draws(G) :
            LET g1 == beforeCheck(G, rnd)
            IN  (/\ ~g1.skier.isJumping
                 /\ g1.skier.y = GroundY
                 /\ \E i \in DOMAIN g1.obstacles : InFootprint(g1, i, "skier"))
                => update(G, now + FrameMs, rnd).currentScreen = GameScreen.GAME_OVER

\* C16: no collision check made with the jumping flag set ends the run
\* because of a fallen-skier obstacle: no such obstacle collides, and the
\* session stays Running unless a bridge is hit.
C16_JumpClearsFallenSkier ==
    currentScreen = GameScreen.PLAYING =>
        \A rnd \in Draws(G) :
            LET g1 == beforeCheck(G, rnd)
            IN  g1.skier.isJumping =>
                  /\ \A i \in DOMAIN g1.obstacles :
                        g1.obstacles[i].type = "skier" => ~Hits(g1, i)
                  /\ (\A i \in DOMAIN g1.obstacles :
                        g1.obstacles[i].type = "bridge" => ~Hits(g1, i))
                     => update(G, now + FrameMs, rnd).currentScreen = GameScreen.PLAYING

\* The next check finds the jumping skier within a fallen skier's box
C16_Witness ==
    /\ currentScreen = GameScreen.PLAYING
    /\ pendingFrames = 1
    /\ now + FrameMs <= budget.until
    /\ \E rnd \in Draws(G) :
          LET g1 == beforeCheck(G, rnd)
          IN  /\ g1.skier.isJumping
              /\ \E i \in DOMAIN g1.obstacles :
                    /\ InFootprint(g1, i, "skier")
                    /\ OverlapsY(g1.obstacles[i], g1.skier)

\* C17: a bridge never gets past a skier who has not ducked: while the
\* session is Running and no duck was accepted in the run, every bridge still
\* reaches beyond the left edge of the skier's footprint.
C17_BridgeNeedsDuck ==
    (currentScreen = GameScreen.PLAYING /\ duckAt = -1) =>
        \A i \in DOMAIN obstacles :
            obstacles[i].type = "bridge" =>
                obstacles[i].worldX - worldX + obstacles[i].width > SkierX * 1000

\* C18: for a ducking skier horizontally overlapping a bridge, the bridge
\* makes the check end the run if and only if the head point y + 12 lies
\* strictly inside the bridge's vertical span, whatever the pose height; and
\* unless a fallen skier is hit in the same check, the run ends if and only
\* if some overlapping bridge has the head point inside its span.
C18_HeadPointTest ==
    currentScreen = GameScreen.PLAYING =>
        \A rnd \in Draws(G) :
            LET g1 == beforeCheck(G, rnd)
                head == g1.skier.y + 12 * 1000
                Inside(i) == /\ g1.obstacles[i].y < head
                             /\ head < g1.obstacles[i].y + g1.obstacles[i].height
                under == {i \in DOMAIN g1.obstacles : InFootprint(g1, i, "bridge")}
            IN  (g1.skier.isDucking /\ under # {}) =>
                  /\ \A i \in under :
                        /\ Hits(g1, i) <=> Inside(i)
                        /\ \A h \in {DuckHeight * 1000, NormalHeight * 1000} :
                              Collides(g1.obstacles[i], [g1.skier EXCEPT !.height = h],
                                       g1.worldX) <=> Inside(i)
                  /\ (\A i \in DOMAIN g1.obstacles :
                         g1.obstacles[i].type = "skier" => ~Hits(g1, i))
                     => (update(G, now + FrameMs, rnd).currentScreen = GameScreen.GAME_OVER
                           <=> \E i \in under : Inside(i))

\* A run ended under a bridge by the head point of a skier who had ducked
\* and then jumped
C18_Witness ==
    /\ currentScreen = GameScreen.GAME_OVER
    /\ gameOverCalls = 1
    /\ atGameOver.skier.isDucking
    /\ atGameOver.skier.isJumping
    /\ atGameOver.skier.height = DuckHeight * 1000
    /\ \E i \in DOMAIN atGameOver.obstacles :
          /\ InFootprint(atGameOver, i, "bridge")
          /\ Hits(atGameOver, i)

\* C19: termination is signalled once per run: gameOver() is called at most
\* once, also when two obstacles qualify in the same tick.
C19_SignalledOnce == gameOverCalls <= 1

\* C20: 50 ticks after a start the session is still Running with world cursor
\* and score above 0, and no run ends before its first obstacle has been
\* spawned (the 120th tick), whatever the inputs.
C20_QuietStart ==
    /\ (ticks >= 1 /\ ticks < SPAWN_INTERVAL) =>
          currentScreen = GameScreen.PLAYING /\ gameOverCalls = 0
    /\ ticks >= 50 => worldX > 0 /\ score > 0
    /\ gameOverCalls > 0 => ticks >= SPAWN_INTERVAL /\ Len(atGameOver.obstacles) > 0

\* 50 ticks of a run have passed without any input
C20_Witness ==
    /\ currentScreen = GameScreen.PLAYING
    /\ ticks = 50
    /\ lastKey = "none"
    /\ budget.dirKeys = 0
    /\ now < budget.poseFrom
    /\ obstacles = <<>>

\* C21: every tick processed while Running moves the world cursor forward by
\* exactly max(skier speed, 0.5), the speed being the one the tick started
\* with, hence strictly forward; no tick lowers the score and no input moves
\* the cursor or the score, so within a run neither ever decreases.
C21_CursorAdvances ==
    currentScreen = GameScreen.PLAYING =>
        /\ \A rnd \in Draws(G) :
              LET g1 == update(G, now + FrameMs, rnd)
              IN  /\ g1.worldX = worldX + Max(skier.speed, 500)
                  /\ g1.worldX > worldX
                  /\ g1.score >= score
        /\ \A key \in Keys :
              LET g1 == handleKeyDown(G, key, now)
              IN  g1.worldX = worldX /\ g1.score = score

\* A run at top speed, well under way
C21_Witness ==
    /\ currentScreen = GameScreen.PLAYING
    /\ skier.speed = MaxSpeed * 1000
    /\ ticks > SPAWN_INTERVAL
    /\ score > 0

\* C22: after any sequence of submissions, interleaved handlers included, the
\* stored leaderboard holds at most 20 entries, in the file and in the
\* Firestore collection alike.
C22_AtMostTwenty ==
    /\ Len(highScoresFile) <= TopScores
    /\ Cardinality(highScoresCollection) <= TopScores

\* C23: a request to any high-score or bad-word route that does not come from
\* the allowed origin is rejected and leaves the stored high scores as they
\* were.
C23_OriginRestricted ==
    \A route \in Routes : \A req \in Requests(route, traffic) :
        req.origin # AllowedOrigin =>
            Serve(S, route, req, traffic.posted) = Respond(S, 401, 0)

\* What the server does restrict: a request to any route that does not carry
\* the valid key (in the X-API-Key header, or in api_key when that header is
\* absent) is answered 401 and leaves the stored high scores and the waiting
\* handlers as they were, whatever its origin.
KeyRequired ==
    \A route \in Routes : \A req \in Requests(route, traffic) :
        (IF req.header # "" THEN req.header ELSE req.query) # API_KEY =>
            Serve(S, route, req, traffic.posted) = Respond(S, 401, 0)

\* C24: ducking works under every bridge the spawner produces: in any
\* collision check made with the skier ducking and on the ground, no bridge
\* makes the check end the run, whether it overlaps the skier's footprint or
\* not; and unless a fallen skier ends it, the session stays Running.
C24_DuckClearsBridge ==
    currentScreen = GameScreen.PLAYING =>
        \A rnd \in Draws(G) :
            LET g1 == beforeCheck(G, rnd)
            IN  (g1.skier.isDucking /\ g1.skier.y = GroundY) =>
                  /\ \A i \in DOMAIN g1.obstacles :
                        g1.obstacles[i].type = "bridge" => ~Hits(g1, i)
                  /\ (\A i \in DOMAIN g1.obstacles :
                        g1.obstacles[i].type = "skier" => ~Hits(g1, i))
                     => update(G, now + FrameMs, rnd).currentScreen = GameScreen.PLAYING

\* The next check finds the ducking skier on the ground with a bridge right
\* above: the bridge spans the whole footprint
C24_Witness ==
    /\ currentScreen = GameScreen.PLAYING
    /\ pendingFrames = 1
    /\ now + FrameMs <= budget.until
    /\ \E rnd \in Draws(G) :
          LET g1 == beforeCheck(G, rnd)
          IN  /\ g1.skier.isDucking
              /\ g1.skier.y = GroundY
              /\ \E i \in DOMAIN g1.obstacles :
                    /\ g1.obstacles[i].type = "bridge"
                    /\ g1.obstacles[i].worldX - g1.worldX <= SkierX * 1000
                    /\ g1.obstacles[i].worldX - g1.worldX + g1.obstacles[i].width
                          >= SkierX * 1000 + 20000

\* The instants before the next frame at which a key event is examined: the
\* first, the last, and those within a millisecond of an edge of the timing
\* window
UntilNextFrame ==
    LET early == TARGET_RHYTHM * 1000 - ToleranceOf(rhythmScore)
        late == TARGET_RHYTHM * 1000 + ToleranceOf(rhythmScore)
        Near(d, edge) == d > edge - 1000 /\ d < edge + 1000
    IN  {t \in now .. now + FrameMs - 1 :
            \/ t = now
            \/ t = now + FrameMs - 1
            \/ Near((t - lastKeyTime) * 1000, early)
            \/ Near((t - lastKeyTime) * 1000, late)}

\* C25: a directional key on the other side than the recorded one, pressed
\* while Running at time t, with delta = t - lastKeyTime, q the rhythm score
\* and T the tolerance derived from q before the update: if
\* TARGET - T <= delta <= TARGET + T (both ends included) the rhythm score
\* becomes min(q + gain, 1.0), otherwise max(q - gain/2, 0.1); and the speed
\* becomes maxSpeed * max(new score, 0.2).
C25_AlternationRule ==
    currentScreen = GameScreen.PLAYING =>
        \A t \in UntilNextFrame : \A key \in DirectionalKeys \ {lastKey} :
            LET delta == (t - lastKeyTime) * 1000
                q == rhythmScore
                T == BASE_RHYTHM_TOLERANCE * 1000
                         - (BASE_RHYTHM_TOLERANCE - MIN_RHYTHM_TOLERANCE) * q
                onBeat == /\ TARGET_RHYTHM * 1000 - T <= delta
                          /\ delta <= TARGET_RHYTHM * 1000 + T
                expected == IF onBeat THEN Min(q + RHYTHM_GAIN, 1000)
                            ELSE Max(q - RHYTHM_GAIN \div 2, 100)
                g1 == handleKeyDown(G, key, t)
            IN  /\ g1.rhythmScore = expected
                /\ g1.skier.speed = MaxSpeed * Max(expected, 200)

\* After a scored key, an instant exactly on the late edge of the window lies
\* before the next frame
C25_Witness ==
    /\ currentScreen = GameScreen.PLAYING
    /\ lastKey \in DirectionalKeys
    /\ rhythmScore > 300
    /\ \E t \in UntilNextFrame :
          (t - lastKeyTime) * 1000 = TARGET_RHYTHM * 1000 + ToleranceOf(rhythmScore)

\* C26: while Running the rhythm score rises only on a key that qualifies: a
\* directional key on the other side than the recorded one, pressed inside
\* the timing window.  A tick, a key on the recorded side, an alternation
\* outside the window and the jump and duck keys leave it equal or lower; a
\* tick changes it exactly as the passive decay does.
C26_GainOnlyOnBeat ==
    currentScreen = GameScreen.PLAYING =>
        /\ \A rnd \in Draws(G) :
              LET g1 == update(G, now + FrameMs, rnd)
              IN  /\ g1.rhythmScore <= rhythmScore
                  /\ g1.rhythmScore = Decay(G, now + FrameMs).rhythmScore
        /\ \A t \in UntilNextFrame : \A key \in Keys :
              LET delta == (t - lastKeyTime) * 1000
                  T == ToleranceOf(rhythmScore)
                  qualifies == /\ key \in DirectionalKeys
                               /\ key # lastKey
                               /\ TARGET_RHYTHM * 1000 - T <= delta
                               /\ delta <= TARGET_RHYTHM * 1000 + T
                  g1 == handleKeyDown(G, key, t)
              IN  /\ g1.rhythmScore > rhythmScore => qualifies
                  /\ ~qualifies => g1.rhythmScore <= rhythmScore

\* Two alternations off the beat have lowered the score
C26_Witness ==
    /\ currentScreen = GameScreen.PLAYING
    /\ lastKey \in DirectionalKeys
    /\ rhythmScore < 300 - RHYTHM_GAIN \div 2
    /\ rhythmScore > 100
    /\ budget.dirKeys < RaggedKeys

\* A step of the rhythm engine that records a directional key
KeyRecorded == now' < now

\* A recorded key that qualifies: on the other side than the recorded one and
\* inside the timing window
BeatKept ==
    /\ KeyRecorded
    /\ lastKey' # lastKey
    /\ GoodTiming(now - lastKeyTime, ToleranceOf(rhythmScore))

\* The passive-decay test of the next tick succeeds
DecayDue == (now + FrameMs - lastKeyTime) * 1000 > TARGET_RHYTHM * 1000 + rhythmTolerance

\* C27: a stalled player is slowed to the floor.  In a run that keeps ticking,
\* every tick made once the time since the recorded key exceeds TARGET + T
\* lowers the rhythm score by the decay amount, not below 0.1; and if from
\* some point on no directional key is recorded, the rhythm score eventually
\* is 0.1 and the speed maxSpeed * 0.2, and both stay there.
C27_StallReachesFloor ==
    /\ [][(currentScreen = GameScreen.PLAYING /\ ~KeyRecorded /\ DecayDue)
             => rhythmScore' = Max(rhythmScore - RHYTHM_DECAY, 100)]_vars
    /\ (<>(currentScreen = GameScreen.PLAYING) /\ <>[][~KeyRecorded]_vars)
          => <>[](rhythmScore = 100 /\ skier.speed = MaxSpeed * 200)

\* The player stalled after keeping the beat: the floor is reached with the
\* clock stopped at the horizon
C27_Witness ==
    /\ currentScreen = GameScreen.PLAYING
    /\ lastKey \in DirectionalKeys
    /\ now = lastKeyTime + RhythmHorizon
    /\ rhythmTolerance < ToleranceOf(300)
    /\ rhythmScore = 100
    /\ skier.speed = MaxSpeed * 200

\* C28: in a run that keeps ticking in which from some point on no key
\* qualifies (keys on the recorded side may still arrive), the rhythm score
\* eventually reaches the floor 0.1.
C28_NoBeatReachesFloor ==
    (<>(currentScreen = GameScreen.PLAYING) /\ <>[][~BeatKept]_vars)
        => <>(rhythmScore = 100)

\* C29: the tolerance is derived state: at every tick while Running, the
\* tolerance the passive-decay test uses equals BASE - (BASE - MIN) * rhythm
\* score for the current rhythm score.
C29_ToleranceDerived ==
    currentScreen = GameScreen.PLAYING => rhythmTolerance = ToleranceOf(rhythmScore)

\* C30: at every observation point while Running, from the start of the run
\* onward, the speed equals maxSpeed * max(rhythm score, 0.2).
C30_SpeedFromRhythm ==
    currentScreen = GameScreen.PLAYING => skier.speed = SpeedOf(rhythmScore)

\* C31: ground clamp.  In every reachable state the skier's vertical position
\* is not below the ground baseline (y grows downwards), and whenever the
\* jumping flag is not set the position is the baseline and the vertical
\* velocity is zero; the same holds in the state every collision check reads.
C31_GroundClamp ==
    /\ skier.y <= GroundY
    /\ ~skier.isJumping => skier.y = GroundY /\ skier.yVelocity = 0
    /\ currentScreen = GameScreen.PLAYING =>
          \A rnd \in Draws(G) :
              LET sk == beforeCheck(G, rnd).skier
              IN  /\ sk.y <= GroundY
                  /\ ~sk.isJumping => sk.y = GroundY /\ sk.yVelocity = 0

\* A jump, the only pose key pressed, has come down again
C31_Witness ==
    /\ currentScreen = GameScreen.PLAYING
    /\ budget.until = PoseTime
    /\ budget.poseKeys = PoseKeys - 1
    /\ duckAt = -1
    /\ ~skier.isJumping
    /\ skier.y = GroundY

\* The number of ticks a jump has been in the air, from its velocity
AirTicks(sk) == (sk.yVelocity - JumpVelocity * 1000) \div Gravity

\* C32: every jump lands.  An accepted jump starts at the baseline with the
\* jump velocity; after k ticks in the air (k from 0 to 48) the velocity is
\* jumpVelocity + k * gravity and the height the sum of the velocities so far;
\* the next tick keeps the skier in the air if k < 48 and clears the jumping
\* flag if k = 48, the 49th tick; and no key pressed during the jump changes
\* the position, the velocity or the flag.
C32_JumpLands ==
    currentScreen = GameScreen.PLAYING =>
        /\ ~skier.isJumping =>
              \A sk \in {handleKeyDown(G, " ", now).skier} :
                  sk.isJumping /\ sk.y = GroundY /\ AirTicks(sk) = 0
                     /\ sk.yVelocity = JumpVelocity * 1000
        /\ skier.isJumping =>
              LET k == AirTicks(skier)
              IN  /\ k \in 0 .. 48
                  /\ skier.yVelocity = JumpVelocity * 1000 + k * Gravity
                  /\ skier.y = GroundY + k * JumpVelocity * 1000
                                       + Gravity * ((k * (k - 1)) \div 2)
                  /\ \A rnd \in Draws(G) :
                        update(G, now + FrameMs, rnd).skier.isJumping <=> k < 48
                  /\ \A key \in Keys :
                        \A sk \in {handleKeyDown(G, key, now).skier} :
                            /\ sk.isJumping
                            /\ sk.y = skier.y
                            /\ sk.yVelocity = skier.yVelocity

\* The last tick in the air of a jump during which the duck key was pressed
C32_Witness ==
    /\ currentScreen = GameScreen.PLAYING
    /\ budget.until = PoseTime
    /\ budget.poseKeys = PoseKeys - 2
    /\ duckAt = -1
    /\ skier.isJumping
    /\ AirTicks(skier) = 48

\* C33: a duck key pressed while the skier is ducking or jumping is ignored:
\* it changes nothing, so it neither sets the ducking flag nor restarts the
\* duck timer.  While the skier is ducking the timer is between 1 and its
\* initial value, no key changes it, and every tick lowers it by exactly one.
C33_DuckNotExtended ==
    currentScreen = GameScreen.PLAYING =>
        /\ (skier.isDucking \/ skier.isJumping) =>
              handleKeyDown(G, "ArrowDown", now) = G
        /\ skier.isDucking =>
              /\ skier.duckTimer \in 1 .. DuckTicks
              /\ \A key \in Keys :
                    \A sk \in {handleKeyDown(G, key, now).skier} :
                        sk.isDucking /\ sk.duckTimer = skier.duckTimer
              /\ \A rnd \in Draws(G) :
                    \A sk \in {update(G, now + FrameMs, rnd).skier} :
                        /\ sk.duckTimer = skier.duckTimer - 1
                        /\ sk.isDucking <=> skier.duckTimer > 1

\* A duck is in progress during which the duck key was pressed once more
C33_Witness ==
    /\ currentScreen = GameScreen.PLAYING
    /\ budget.until = PoseTime
    /\ budget.poseKeys = PoseKeys - 2
    /\ skier.isDucking
    /\ ~skier.isJumping
    /\ duckAt \in 0 .. DuckTicks - 1
    /\ skier.duckTimer < DuckTicks

\* The obstacles (or spectator groups) of seq that the coming tick keeps: those
\* still less than margin behind the cursor after the scroll
Survivors(seq, margin) ==
    Cardinality({i \in DOMAIN seq : seq[i].worldX - Drift(G) > worldX - margin})

\* C34: spawn cadence.  While Running the obstacle timer is the number of
\* ticks since the start modulo SPAWN_INTERVAL and the spectator timer that
\* number modulo SPECTATOR_SPAWN_INTERVAL; the coming tick creates exactly one
\* obstacle if its number is a multiple of SPAWN_INTERVAL and none otherwise,
\* and one spectator group if it is a multiple of SPECTATOR_SPAWN_INTERVAL
\* and none otherwise; and no key changes either timer.
C34_SpawnCadence ==
    currentScreen = GameScreen.PLAYING =>
        /\ spawnTimer = ticks % SPAWN_INTERVAL
        /\ spectatorSpawnTimer = ticks % SPECTATOR_SPAWN_INTERVAL
        /\ \A rnd \in Draws(G) :
              \A g1 \in {beforeCheck(G, rnd)} :
                  /\ Len(g1.obstacles) - Survivors(obstacles, 150000)
                        = IF (ticks + 1) % SPAWN_INTERVAL = 0 THEN 1 ELSE 0
                  /\ Len(g1.spectators) - Survivors(spectators, 600000)
                        = IF (ticks + 1) % SPECTATOR_SPAWN_INTERVAL = 0 THEN 1 ELSE 0
        /\ \A key \in Keys :
              \A g1 \in {handleKeyDown(G, key, now)} :
                  /\ g1.spawnTimer = spawnTimer
                  /\ g1.spectatorSpawnTimer = spectatorSpawnTimer
                  /\ g1.obstacles = obstacles

\* The 240th tick of a run is about to create the second obstacle, one
\* spectator group being created in the same tick
C34_Witness ==
    /\ currentScreen = GameScreen.PLAYING
    /\ pendingFrames > 0
    /\ now + FrameMs <= budget.until
    /\ ticks + 1 = 2 * SPAWN_INTERVAL
    /\ Len(obstacles) >= 1

\* C35 as stated: in the tick that spawns it, the new obstacle is at least the
\* viewport width ahead of the world cursor when the collisions are checked.
C35_AheadAtCheck ==
    (currentScreen = GameScreen.PLAYING /\ (ticks + 1) % SPAWN_INTERVAL = 0) =>
        \A rnd \in Draws(G) :
            \A g1 \in {beforeCheck(G, rnd)} :
                LET o == g1.obstacles[Len(g1.obstacles)]
                IN  o.worldX >= g1.worldX + CANVAS_WIDTH * 1000

\* C35 amended: an obstacle is created at least the viewport width ahead of
\* the world cursor and scrolls back once before the collisions of that tick
\* are checked: at the check it is at least the viewport width minus one
\* scroll step (2 + 0.2 * speed, at most 3) ahead of the cursor, it does not
\* overlap the skier's footprint, and it does not end the run.
C35_SpawnedAhead ==
    (currentScreen = GameScreen.PLAYING /\ (ticks + 1) % SPAWN_INTERVAL = 0) =>
        \A rnd \in Draws(G) :
            \A g1 \in {beforeCheck(G, rnd)} :
                LET n == Len(g1.obstacles)
                    o == g1.obstacles[n]
                    step == 2000 + skier.speed \div 5
                IN  /\ n > 0
                    /\ step <= 3000
                    /\ o.worldX + step >= worldX + CANVAS_WIDTH * 1000
                    /\ o.worldX + step <= worldX + CANVAS_WIDTH * 1000 + 300000
                    /\ ~OverlapsX(o, g1.worldX)
                    /\ ~Hits(g1, n)

\* The tick that created the first obstacle has run, and the obstacle is
\* already inside the viewport
C35_Witness ==
    /\ currentScreen = GameScreen.PLAYING
    /\ ticks = SPAWN_INTERVAL
    /\ Len(obstacles) = 1
    /\ obstacles[1].worldX - worldX < CANVAS_WIDTH * 1000

\* C36 as stated: at the end of every tick no obstacle is more than 150 and no
\* spectator group more than 600 behind the world cursor.
C36_CulledAtTickEnd ==
    /\ \A i \in DOMAIN obstacles : obstacles[i].worldX >= worldX - 150000
    /\ \A i \in DOMAIN spectators : spectators[i].worldX >= worldX - 600000

\* C36 amended: the margins are measured from the cursor of the tick before
\* it advances.  When the collisions of a tick are checked no obstacle is 150
\* or more and no spectator group 600 or more behind that cursor; at the end
\* of the tick, the cursor having advanced by at most the top speed, they are
\* less than 155 and 605 behind it.  The obstacles a tick removes are those
\* that the scroll takes 150 or more behind the cursor, and each of them has
\* its whole extent behind the skier's footprint.
C36_CulledBeforeAdvance ==
    /\ \A i \in DOMAIN obstacles :
          obstacles[i].worldX > worldX - 150000 - MaxSpeed * 1000
    /\ \A i \in DOMAIN spectators :
          spectators[i].worldX > worldX - 600000 - MaxSpeed * 1000
    /\ currentScreen = GameScreen.PLAYING =>
          \A rnd \in Draws(G) :
              \A g1 \in {beforeCheck(G, rnd)} :
              LET gone == {i \in DOMAIN obstacles :
                              obstacles[i].worldX - Drift(G) <= worldX - 150000}
              IN  /\ \A i \in DOMAIN g1.obstacles :
                        g1.obstacles[i].worldX > g1.worldX - 150000
                  /\ \A i \in DOMAIN g1.spectators :
                        g1.spectators[i].worldX > g1.worldX - 600000
                  /\ \A i \in DOMAIN obstacles :
                        i \notin gone =>
                            \E j \in DOMAIN g1.obstacles :
                                g1.obstacles[j] =
                                    [obstacles[i] EXCEPT !.worldX = @ - Drift(G)]
                  /\ \A i \in gone :
                        /\ obstacles[i].worldX + obstacles[i].width < worldX + SkierX * 1000
                        /\ \A j \in DOMAIN g1.obstacles :
                              g1.obstacles[j].worldX # obstacles[i].worldX - Drift(G)

\* The skier has jumped the first fallen skier and left it 150 behind: the
\* coming tick removes it
C36_Witness ==
    /\ currentScreen = GameScreen.PLAYING
    /\ pendingFrames > 0
    /\ now + FrameMs <= budget.until
    /\ \E i \in DOMAIN obstacles :
          /\ obstacles[i].worldX - Drift(G) <= worldX - 150000
          /\ obstacles[i].worldX < worldX - 150000

\* C37: each tick takes the components in the order rhythm, physics,
\* scroll/spawn, collision, state: the cursor advances by the speed that the
\* tick's passive decay leaves, and the collisions of the tick are tested
\* against the cursor after its advance.
C37_TickOrder ==
    currentScreen = GameScreen.PLAYING =>
        \A rnd \in Draws(G) :
            LET g1 == update(G, now + FrameMs, rnd)
                checked == beforeCheck(G, rnd)
            IN  /\ g1.worldX = worldX + Max(g1.skier.speed, 500)
                /\ g1.currentScreen = GameScreen.GAME_OVER <=>
                      \E i \in DOMAIN checked.obstacles :
                          Collides(checked.obstacles[i], checked.skier, g1.worldX)

\* C38: at most one chain of frame callbacks is live at any time: never more
\* than one gameLoop callback is queued for the next animation frame, so that a
\* frame runs one tick.
C38_OneLoopLive == pendingFrames <= 1

\* C39: a name prompt raised by a game over asks for the result of the run
\* that ended: the score it reads is the final score of that run, also when
\* a new run was started before the delayed callback ran.
C39_PromptUsesResult == namePrompt.asked => namePrompt.scored = namePrompt.final

\* C40: directional events are judged one by one, each against the side and
\* the time recorded by the event before it: of two events that arrive at
\* the same screen state before the next tick, the first records its side
\* and time, and the second counts as an alternation if and only if its side
\* differs from the first one's; it is then judged by the time since the
\* first, which is off the beat.  An event on the recorded side changes no
\* score, so same-side events never count twice.
C40_OneByOne ==
    currentScreen = GameScreen.PLAYING =>
        \A k1 \in DirectionalKeys : \A g1 \in {handleKeyDown(G, k1, now)} :
            \A k2 \in DirectionalKeys, t2 \in {now, now + FrameMs - 1} :
                \A g2 \in {handleKeyDown(g1, k2, t2)} :
                    /\ g1.lastKey = k1
                    /\ g1.lastKeyTime = now
                    /\ k1 = lastKey => g1.rhythmScore = rhythmScore
                    /\ g2.lastKey = k2
                    /\ g2.lastKeyTime = t2
                    /\ g2.rhythmScore =
                          IF k2 # k1 THEN Max(g1.rhythmScore - RHYTHM_GAIN \div 2, 100)
                          ELSE g1.rhythmScore

\* Directional keys have arrived before the first frame of a run, the later
\* ones on the side of the first: one alternation has been counted
C40_Witness ==
    /\ currentScreen = GameScreen.PLAYING
    /\ ticks = 1
    /\ now = lastKeyTime
    /\ budget.deltas = {0}
    /\ budget.dirKeys <= BurstKeys - 2
    /\ lastKey \in DirectionalKeys
    /\ rhythmScore = Max(300 - RHYTHM_GAIN \div 2, 100)

=============================================================================
